---- MODULE Spec2Model ----
(***************************************************************************)
(* Model of threshold_matrix.py: the thresholding function                 *)
(* threshold_Mtriu and the two file writers save_mat and save_png, each    *)
(* called on its own, and the file run as a script.                        *)
(*                                                                         *)
(* Matrices are sequences of rows; floating-point weights are modelled by  *)
(* small integers.  A numpy array and the views made of it by reshape      *)
(* share one buffer, so a write through M_triu_unzip is a write to M_triu. *)
(***************************************************************************)
EXTENDS Integers, Sequences, FiniteSets, TLC

\* ---- bounds of the model ------------------------------------------------
MaxN == 3
MaxVal == 2
MaxNegKeep == 2
MaxKeep == 6

\* the weights a matrix file may hold: one negative weight, zero, and the
\* positive weights up to MaxVal
Values == {-1} \cup (0..MaxVal)
KeepCounts == (-MaxNegKeep)..MaxKeep

\* ---- the file system ----------------------------------------------------
Paths == {"out_old", "out_new"}
NoFile == [kind |-> "none", rows |-> <<>>]
OldContent == [kind |-> "old", rows |-> <<>>]

\* ---- numpy helpers ------------------------------------------------------
\* M.reshape(-1): row-major flattening
Flatten(Mx) ==
  LET n == Len(Mx)
  IN [p \in 1..(n * n) |-> Mx[((p - 1) \div n) + 1][((p - 1) % n) + 1]]

\* a reshape that reads the buffer column-major (order='F')
ReshapeTransposed(flat, n) ==
  [i \in 1..n |-> [j \in 1..n |-> flat[(j - 1) * n + i]]]

\* flat.reshape(M_triu.shape): row-major, the inverse of Flatten
Reshape(flat, n) ==
  [i \in 1..n |-> [j \in 1..n |-> flat[(i - 1) * n + j]]]

\* np.triu(M, k): entries with j - i >= k are kept, the others are zero
triu(Mx, k) ==
  [i \in 1..Len(Mx) |-> [j \in 1..Len(Mx) |->
      IF j - i >= k THEN Mx[i][j] ELSE 0]]

Insert(x, s) ==
  LET k == Cardinality({i \in 1..Len(s) : s[i] <= x})
  IN SubSeq(s, 1, k) \o <<x>> \o SubSeq(s, k + 1, Len(s))

\* np.sort: ascending
RECURSIVE np_sort(_)
np_sort(s) == IF s = <<>> THEN <<>> ELSE Insert(Head(s), np_sort(Tail(s)))

\* s[i] with a Python index (0-based, negative counts from the end)
PyInRange(s, i) == (-Len(s) <= i) /\ (i < Len(s))
PyIndex(s, i) == IF i >= 0 THEN s[i + 1] ELSE s[Len(s) + i + 1]

\* s[i:] with a Python slice start (clamped, never raises)
PySliceFrom(s, i) ==
  LET L == Len(s)
      start == IF i < 0 THEN (IF L + i < 0 THEN 0 ELSE L + i)
                        ELSE (IF i > L THEN L ELSE i)
  IN SubSeq(s, start + 1, L)

\* ---- threshold_Mtriu, line by line ---------------------------------------
KeepValuesOffByOne(sorted, n_keep) == PySliceFrom(sorted, (-n_keep) + 1)

\* keep_values = M_triu_unzip_sorted[-n_keep:]
KeepValues(sorted, n_keep) == PySliceFrom(sorted, -n_keep)

\* thresh = M_triu_unzip_sorted[-n_keep]; raises IndexError out of range
ThreshRaises(sorted, n_keep) == ~PyInRange(sorted, -n_keep)
Thresh(sorted, n_keep) == PyIndex(sorted, -n_keep)

NThreshKeepNoMask(keep_values, thresh) == Len(keep_values)

\* n_thresh_keep = keep_values[keep_values == thresh].shape[0]
NThreshKeep(keep_values, thresh) ==
  Cardinality({i \in DOMAIN keep_values : keep_values[i] = thresh})

IdxAtLeast(flat, thresh) == {p \in DOMAIN flat : flat[p] >= thresh}

\* idx = np.argwhere(M_triu_unzip == thresh)
Idx(flat, thresh) == {p \in DOMAIN flat : flat[p] = thresh}

\* M_triu_unzip[tail] = 0
ZeroAt(flat, tail) == [p \in DOMAIN flat |-> IF p \in tail THEN 0 ELSE flat[p]]

RECURSIVE SubsetsOfSize(_, _)
SubsetsOfSize(S, m) ==
  IF m = 0 THEN {{}}
  ELSE IF Cardinality(S) < m THEN {}
  ELSE LET x == CHOOSE y \in S : TRUE
       IN {T \cup {x} : T \in SubsetsOfSize(S \ {x}, m - 1)}
            \cup SubsetsOfSize(S \ {x}, m)

\* np.random.shuffle(idx) followed by idx[n_thresh_keep:]: the positions
\* that end up behind the first n_thresh_keep.  Every subset of idx of that
\* size is the tail of some order.  When the tied value is 0 every tail
\* writes 0 over 0, so one tail (the last positions) stands for all of them.
ShuffledTails(idx, n_thresh_keep, thresh) ==
  LET m == IF Cardinality(idx) > n_thresh_keep
           THEN Cardinality(idx) - n_thresh_keep ELSE 0
  IN IF thresh = 0
     THEN {{p \in idx : Cardinality({q \in idx : q > p}) < m}}
     ELSE SubsetsOfSize(idx, m)

\* The outcomes of threshold_Mtriu(M_triu, n_keep): whether it raised, the
\* buffer of M_triu after the call, and the returned matrix.
threshold_Mtriu(Mt, k) ==
  LET M_triu_unzip == Flatten(Mt)
      sorted == np_sort(M_triu_unzip)
  IN IF ThreshRaises(sorted, k)
     THEN {[raised |-> TRUE, buf |-> M_triu_unzip, ret |-> <<>>]}
     ELSE LET keep_values == KeepValues(sorted, k)
              thresh == Thresh(sorted, k)
              n_thresh_keep == NThreshKeep(keep_values, thresh)
              idx == Idx(M_triu_unzip, thresh)
          IN {[raised |-> FALSE,
               buf |-> ZeroAt(M_triu_unzip, tail),
               ret |-> Reshape(ZeroAt(M_triu_unzip, tail), Len(Mt))]
                : tail \in ShuffledTails(idx, n_thresh_keep, thresh)}

\* ---- the writers ---------------------------------------------------------
\* the names bound at module level: the three imports and the four functions;
\* os is not among them
ModuleGlobals ==
  {"np", "plt", "argparse",
   "setup_argparser", "threshold_Mtriu", "save_mat", "save_png"}

\* M[1:,1:]
DropFirst(Mx) ==
  [i \in 1..(Len(Mx) - 1) |-> [j \in 1..(Len(Mx) - 1) |-> Mx[i + 1][j + 1]]]

\* fmt='%.5f': a number as its digits in units of 10^-5
Fmt5(v) == v * 100000

savetxt(Mx) ==
  [kind |-> "txt",
   rows |-> [i \in 1..Len(Mx) |-> [j \in 1..Len(Mx) |-> Fmt5(Mx[i][j])]]]

\* the image of np.log1p(M[1:,1:]); pixels are kept as the weights they show
savefig(Mx) == [kind |-> "png", rows |-> Mx]

\* save_mat with the line of the existence test left out
save_mat_overwrite(fsys, Mx, name) ==
  [raised |-> "none", fs |-> [fsys EXCEPT ![name] = savetxt(DropFirst(Mx))]]

\* save_mat(M, M_text_name): the exception it ends with ("none" for a normal
\* return) and the file system it leaves.  The test os.path.exists is the
\* first thing evaluated and os is looked up in the module's globals.
save_mat(fsys, Mx, name) ==
  IF "os" \notin ModuleGlobals
  THEN [raised |-> "NameError", fs |-> fsys]
  ELSE IF fsys[name] = NoFile
       THEN [raised |-> "none",
             fs |-> [fsys EXCEPT ![name] = savetxt(DropFirst(Mx))]]
       ELSE [raised |-> "none", fs |-> fsys]

\* save_png(M, M_fig_name), as save_mat
save_png(fsys, Mx, name) ==
  IF "os" \notin ModuleGlobals
  THEN [raised |-> "NameError", fs |-> fsys]
  ELSE IF fsys[name] = NoFile
       THEN [raised |-> "none",
             fs |-> [fsys EXCEPT ![name] = savefig(DropFirst(Mx))]]
       ELSE [raised |-> "none", fs |-> fsys]

\* ---- inputs -------------------------------------------------------------
UpperCells(n) == {c \in (1..n) \X (1..n) : c[1] < c[2]}

\* the n-by-n connectivity matrices: symmetric, with a zero diagonal
Matrices(n) ==
  {[i \in 1..n |-> [j \in 1..n |->
       IF i < j THEN u[<<i, j>>] ELSE IF j < i THEN u[<<j, i>>] ELSE 0]]
     : u \in [UpperCells(n) -> Values]}

\* ---- the operations -----------------------------------------------------
\* The file is run as a script, or its functions are called one by one.
\*   pc           "start", "exit" (the script is over), "returned" or
\*                "raised" (threshold_Mtriu is over)
\*   M            the matrix of the file M_file
\*   M_triu       the array np.triu(M, 1), the argument of threshold_Mtriu
\*   thr_M_triu   the matrix threshold_Mtriu returned
\*   M_text_name  the path save_mat was called with
\*   M_fig_name   the path save_png was called with
\*   fs           the content of each path
\*   err          the exception the last operation ended with
VARIABLES pc, n_keep, M, M_triu, thr_M_triu, M_text_name, M_fig_name, fs, err

vars == <<pc, n_keep, M, M_triu, thr_M_triu, M_text_name, M_fig_name, fs, err>>

Init ==
  /\ pc = "start"
  /\ n_keep \in KeepCounts
  /\ \E n \in 1..MaxN : M \in Matrices(n)
  /\ M_triu = triu(M, 1)
  /\ thr_M_triu = <<>>
  /\ M_text_name = "unset"
  /\ M_fig_name = "unset"
  /\ fs = [p \in Paths |-> IF p = "out_old" THEN OldContent ELSE NoFile]
  /\ err = "none"

\* python threshold_matrix.py M_file n_keep: line 135 never closes its
\* parenthesis, the file is rejected when it is compiled and no statement
\* of it is executed.
RunScript ==
  /\ pc = "start"
  /\ pc' = "exit"
  /\ err' = "SyntaxError"
  /\ UNCHANGED <<n_keep, M, M_triu, thr_M_triu, M_text_name, M_fig_name, fs>>

\* threshold_Mtriu(M_triu, n_keep), called on its own
Threshold ==
  /\ pc = "start"
  /\ \E o \in threshold_Mtriu(M_triu, n_keep) :
       \/ /\ o.raised
          /\ pc' = "raised"
          /\ err' = "IndexError"
          /\ UNCHANGED <<M_triu, thr_M_triu>>
       \/ /\ ~o.raised
          /\ M_triu' = Reshape(o.buf, Len(M_triu))
          /\ thr_M_triu' = o.ret
          /\ pc' = "returned"
          /\ err' = err
  /\ UNCHANGED <<n_keep, M, M_text_name, M_fig_name, fs>>

\* save_mat(thr_M_triu, p), called on its own with the returned matrix
SaveMat ==
  /\ pc = "returned"
  /\ M_text_name = "unset"
  /\ \E p \in Paths :
       /\ M_text_name' = p
       /\ fs' = save_mat(fs, thr_M_triu, p).fs
       /\ err' = save_mat(fs, thr_M_triu, p).raised
  /\ UNCHANGED <<pc, n_keep, M, M_triu, thr_M_triu, M_fig_name>>

\* save_png(thr_M_triu, p), called on its own with the returned matrix
SavePng ==
  /\ pc = "returned"
  /\ M_fig_name = "unset"
  /\ \E p \in Paths :
       /\ M_fig_name' = p
       /\ fs' = save_png(fs, thr_M_triu, p).fs
       /\ err' = save_png(fs, thr_M_triu, p).raised
  /\ UNCHANGED <<pc, n_keep, M, M_triu, thr_M_triu, M_text_name>>

Next ==
  \/ RunScript
  \/ Threshold
  \/ SaveMat
  \/ SavePng

Spec == Init /\ [][Next]_vars

\* ---- what the properties talk about ---------------------------------------
\* threshold_Mtriu has just returned a matrix
Returned == pc = "returned" /\ M_text_name = "unset" /\ M_fig_name = "unset"
\* threshold_Mtriu has raised
Raised == pc = "raised"
N == Len(M)
\* the argument of threshold_Mtriu as it was when the call was made
InputTriu == triu(M, 1)
\* the number of cells (i,j) with i < j of an n-by-n matrix
upperTriangleSize(n) == (n * (n - 1)) \div 2
ValidK == (1 <= n_keep) /\ (n_keep <= upperTriangleSize(N))
ComputedThresh(flat) == Thresh(np_sort(flat), n_keep)
Greater(flat, th) == {p \in DOMAIN flat : flat[p] > th}
Tied(flat, th) == {p \in DOMAIN flat : flat[p] = th}
Below(flat, th) == {p \in DOMAIN flat : flat[p] < th}
NonZero(flat) == {p \in DOMAIN flat : flat[p] # 0}

\* C1: for a valid k the returned matrix has exactly k non-zero entries.
C1_ExactlyKNonZero ==
  (Returned /\ ValidK) => Cardinality(NonZero(Flatten(thr_M_triu))) = n_keep

\* C2: for a valid k every position whose input value is strictly below the
\* threshold holds zero in the result.
C2_BelowThreshZeroed ==
  (Returned /\ ValidK) =>
     LET in == Flatten(InputTriu)
         out == Flatten(thr_M_triu)
         th == ComputedThresh(in)
     IN \A p \in Below(in, th) : out[p] = 0

\* C3: threshold_Mtriu never returns a matrix when k <= 0 or k exceeds the
\* number of strict-upper-triangle cells; it signals an error instead.
C3_InvalidKeepCountRaises ==
  ((Returned \/ Raised) /\ ~ValidK) => Raised

\* C4: with k equal to the number of strict-upper-triangle cells the call
\* returns a matrix equal to its input at every position, and a second call
\* on that result returns it unchanged again.
C4_FullCountIsIdentity ==
  ((Returned \/ Raised) /\ n_keep = upperTriangleSize(N)) =>
     /\ Returned
     /\ thr_M_triu = InputTriu
     /\ \A o \in threshold_Mtriu(thr_M_triu, n_keep) :
           ~o.raised /\ o.ret = thr_M_triu

C4_Witness ==
  /\ Returned
  /\ N = 3
  /\ n_keep = upperTriangleSize(N)
  /\ \E i \in 1..N : \E j \in 1..N : InputTriu[i][j] < 0
  /\ \E i \in 1..N : \E j \in 1..N : InputTriu[i][j] > 0

\* C5: for a valid k every position whose input value is strictly above the
\* threshold keeps its input value, whatever the shuffle did.
C5_AboveThreshKept ==
  (Returned /\ ValidK) =>
     LET in == Flatten(InputTriu)
         out == Flatten(thr_M_triu)
         th == ComputedThresh(in)
     IN \A p \in Greater(in, th) : out[p] = in[p]

C5_Witness ==
  /\ Returned
  /\ ValidK
  /\ LET in == Flatten(InputTriu)
         out == Flatten(thr_M_triu)
         th == ComputedThresh(in)
     IN /\ Greater(in, th) # {}
        /\ \E p \in Tied(in, th) : in[p] # 0 /\ out[p] = 0

\* C6: every position of the result holds zero or the value the input held
\* at that same position.
C6_ZeroOrInput ==
  Returned =>
    LET in == InputTriu
    IN \A i \in 1..N : \A j \in 1..N :
          thr_M_triu[i][j] = 0 \/ thr_M_triu[i][j] = in[i][j]

C6_Witness ==
  /\ Returned
  /\ \E i \in 1..N : \E j \in 1..N :
        InputTriu[i][j] # 0 /\ thr_M_triu[i][j] = 0
  /\ \E i \in 1..N : \E j \in 1..N :
        InputTriu[i][j] # 0 /\ thr_M_triu[i][j] = InputTriu[i][j]

\* C7: no step of save_mat or save_png changes the content of a file that
\* exists when the step is taken.
C7_NoOverwrite ==
  [][\A p \in Paths : fs[p] # NoFile => fs'[p] = fs[p]]_vars

C7_Witness ==
  /\ M_text_name = "out_old"
  /\ M_fig_name = "out_old"
  /\ fs["out_old"] = OldContent

\* C8: for a valid k, with g the number of entries above the threshold,
\* exactly k - g of the positions holding the threshold value are left as
\* they were and all other positions holding it are zero: every tied
\* position holds its input value or zero, at most k - g of them are not
\* zero and at least k - g of them hold their input value.
C8_TiesKeptExactly ==
  (Returned /\ ValidK) =>
     LET in == Flatten(InputTriu)
         out == Flatten(thr_M_triu)
         th == ComputedThresh(in)
         tied == Tied(in, th)
         need == n_keep - Cardinality(Greater(in, th))
     IN /\ \A p \in tied : out[p] = in[p] \/ out[p] = 0
        /\ Cardinality({p \in tied : out[p] # 0}) <= need
        /\ Cardinality({p \in tied : out[p] = in[p]}) >= need

C8_Witness ==
  /\ Returned
  /\ ValidK
  /\ LET in == Flatten(InputTriu)
         th == ComputedThresh(in)
     IN /\ th # 0
        /\ Greater(in, th) # {}
        /\ Cardinality(Tied(in, th)) > n_keep - Cardinality(Greater(in, th))

\* C9: after the call the matrix passed in as M_triu holds the values it
\* held before the call.
C9_InputNotMutated ==
  Returned => M_triu = InputTriu

\* C10: when the run of the script is over, the text file it wrote holds
\* the thresholded matrix that threshold_Mtriu returns for the loaded matrix.
C10_SavesThresholded ==
  (pc = "exit" /\ ValidK) =>
     \E p \in Paths : \E o \in threshold_Mtriu(triu(M, 1), n_keep) :
        ~o.raised /\ fs[p] = savetxt(DropFirst(o.ret))

====
